---- MODULE Spec2Model ----
(***************************************************************************)
(* Model of the Brainfuck interpreter in interpreter.py: the Memory class, *)
(* the depth analyzer getNestingLevels and the jump resolvers              *)
(* findLevelClosing / findLevelOpening.                                    *)
(*                                                                         *)
(* Positions are 0-based as in the Python source; At(s, i) reads the       *)
(* element Python writes s[i].                                             *)
(***************************************************************************)
EXTENDS Integers, Sequences, FiniteSets, TLC

VARIABLES
    text,      \* getNestingLevels: the program text, a sequence of characters
    pc,        \* getNestingLevels: "start", "scan", "accepted" or "failed"
               \* ("none" while brainfuck has not called it)
    i,         \* getNestingLevels: loop index of `for i in range(0, len(text))`
    depth,     \* getNestingLevels: running depth
    lastopen,  \* getNestingLevels: position of the last opening bracket
    depths,    \* getNestingLevels: result vector
    err,       \* the exception that ended getNestingLevels, if any
    fwd,       \* last call of findLevelClosing: argument and outcome
    bwd,       \* last call of findLevelOpening: argument and outcome
    cells,     \* Memory.cells
    pointer,   \* Memory.pointer
    value,     \* Memory.value
    op,        \* last Memory method called: name and argument
    exc,       \* the exception that ended that call, "none" if it returned
    phase,     \* brainfuck: "idle", "validate", "loop", "done" or "failed"
    ip,        \* brainfuck: its local i, the instruction pointer
    output,    \* code points of the characters the current run has printed
    consumed,  \* number of input lines the current run has read
    memarg     \* brainfuck: the memory argument of the current run

scanVars == <<text, pc, i, depth, lastopen, depths, err, fwd, bwd>>
memVars == <<cells, pointer, value, op, exc>>
runVars == <<phase, ip, output, consumed, memarg>>
vars == <<text, pc, i, depth, lastopen, depths, err, fwd, bwd,
          cells, pointer, value, op, exc,
          phase, ip, output, consumed, memarg>>

----------------------------------------------------------------------------
(* Bounds of the model.                                                    *)

\* longest program text drawn
MaxLen == 6
\* longest program of a run drawn from the whole instruction alphabet
MaxProgLen == 1
\* largest factor of the multiplication programs, besides 8
MaxFactor == 3
\* a run does not increment a cell beyond this
MaxRunVal == 64
\* a run prints no more characters than this
MaxOut == 3
\* a run reads no more input lines than this
MaxReads == 2
\* largest Memory size drawn
MaxCells == 2
\* cell values are not incremented or set beyond this
MaxVal == 9
\* the pointer is not moved further than this past the last cell
MaxOver == 1

----------------------------------------------------------------------------
(* Python helpers.                                                         *)

\* s[k] of a Python list: a negative index counts from the end
At(s, k) == IF k < 0 THEN s[Len(s) + k + 1] ELSE s[k + 1]

\* s[k] does not raise IndexError
Indexable(s, k) == k < Len(s) /\ k >= -Len(s)

\* the list s after s[k] = v
Store(s, k, v) == [s EXCEPT ![IF k < 0 THEN Len(s) + k + 1 ELSE k + 1] = v]

max(a, b) == IF a >= b THEN a ELSE b

SetMin(S) == CHOOSE x \in S : \A y \in S : x <= y

SetMax(S) == CHOOSE x \in S : \A y \in S : x >= y

\* s[a:] and s[:b] for 0 <= a, b <= len(s)
SliceFrom(s, a) == SubSeq(s, a + 1, Len(s))

SliceTo(s, b) == SubSeq(s, 1, b)

Returned(v) == [ok |-> TRUE, val |-> v, exc |-> "none", pos |-> -1]

Raised(e, p) == [ok |-> FALSE, val |-> -1, exc |-> e, pos |-> p]

NotCalled == [arg |-> -1, res |-> Raised("notcalled", -1)]

NoError == Raised("none", -1)

----------------------------------------------------------------------------
(* getNestingLevels, lines 47-104.                                         *)

opening == "["

closing == "]"

\* lines 73-83: the length check and the initialisation
getNestingLevelsEnter ==
    /\ pc = "start"
    /\ IF Len(text) = 0
         THEN /\ pc' = "failed"
              /\ err' = Raised("EmptyProgram", -1)
              /\ UNCHANGED <<depths, depth, lastopen, i>>
         ELSE /\ pc' = "scan"
              /\ depths' = [k \in 1..Len(text) |-> 0]
              /\ depth' = 0
              /\ lastopen' = -1
              /\ i' = 0
              /\ err' = err
    /\ UNCHANGED <<text, fwd, bwd>>
    /\ UNCHANGED memVars
    /\ UNCHANGED runVars

\* the depth after character c, lines 88-93
DepthAfter(d, c) ==
    LET d1 == IF c = opening THEN d + 1 ELSE d
    IN  IF c = closing THEN d1 - 1 ELSE d1

\* the scan recording the depth before the character instead of after it
getNestingLevelsStep_RecordsBefore ==
    /\ pc = "scan"
    /\ i < Len(text)
    /\ LET c == At(text, i)
           d == DepthAfter(depth, c)
       IN  /\ lastopen' = IF c = opening THEN i ELSE lastopen
           /\ depth' = d
           /\ IF d < 0
                THEN /\ pc' = "failed"
                     /\ err' = Raised("UnmatchedClosingBracket", i)
                     /\ UNCHANGED <<depths, i>>
                ELSE /\ depths' = Store(depths, i, depth)
                     /\ i' = i + 1
                     /\ UNCHANGED <<pc, err>>
    /\ UNCHANGED <<text, fwd, bwd>>
    /\ UNCHANGED memVars
    /\ UNCHANGED runVars

\* lines 85-98: one iteration of the scan; i is the index of the character
\* the loop handles next
getNestingLevelsStep ==
    /\ pc = "scan"
    /\ i < Len(text)
    /\ LET c == At(text, i)
           d == DepthAfter(depth, c)
       IN  /\ lastopen' = IF c = opening THEN i ELSE lastopen
           /\ depth' = d
           /\ IF d < 0
                THEN /\ pc' = "failed"
                     /\ err' = Raised("UnmatchedClosingBracket", i)
                     /\ UNCHANGED <<depths, i>>
                ELSE /\ depths' = Store(depths, i, d)
                     /\ i' = i + 1
                     /\ UNCHANGED <<pc, err>>
    /\ UNCHANGED <<text, fwd, bwd>>
    /\ UNCHANGED memVars
    /\ UNCHANGED runVars

\* the end of the scan without the check of the final depth
getNestingLevelsFinish_NoCheck ==
    /\ pc = "scan"
    /\ i = Len(text)
    /\ pc' = "accepted"
    /\ err' = err
    /\ UNCHANGED <<text, i, depth, lastopen, depths, fwd, bwd>>
    /\ UNCHANGED memVars
    /\ UNCHANGED runVars

\* lines 100-104: after the loop
getNestingLevelsFinish ==
    /\ pc = "scan"
    /\ i = Len(text)
    /\ IF depth > 0
         THEN /\ pc' = "failed"
              /\ err' = Raised("UnmatchedOpeningBracket", lastopen)
         ELSE /\ pc' = "accepted"
              /\ err' = err
    /\ UNCHANGED <<text, i, depth, lastopen, depths, fwd, bwd>>
    /\ UNCHANGED memVars
    /\ UNCHANGED runVars

----------------------------------------------------------------------------
(* findLevelClosing, lines 106-136, and findLevelOpening, lines 138-167.   *)

\* findLevelClosing stopping at a depth <= level instead of < level
findLevelClosing_AtMost(levels, p) ==
    LET level == At(levels, p)
        forward == SliceFrom(levels, p)
        hits == {f \in 1..(Len(forward) - 1) : At(forward, f) <= level}
    IN  IF hits # {}
          THEN Returned(p + SetMin(hits) + 1)
          ELSE Raised("UnmatchedOpeningBracket", p)

findLevelClosing(levels, p) ==
    LET level == At(levels, p)
        forward == SliceFrom(levels, p)
        hits == {f \in 1..(Len(forward) - 1) : At(forward, f) < level}
    IN  IF hits # {}
          THEN Returned(p + SetMin(hits) + 1)
          ELSE Raised("UnmatchedOpeningBracket", p)

findLevelOpening(levels, p) ==
    LET level == At(levels, p)
        backward == SliceTo(levels, p)
        \* range(len(backward) - 1, 0, -1): from len - 1 down to 1
        hits == {f \in 1..(Len(backward) - 1) : At(backward, f) = level}
    IN  IF hits # {}
          THEN Returned(SetMax(hits) + 2)
          ELSE Raised("UnmatchedClosingBracket", p)

callFindLevelClosing(p) ==
    /\ pc = "accepted"
    /\ fwd' = [arg |-> p, res |-> findLevelClosing(depths, p)]
    /\ UNCHANGED <<text, pc, i, depth, lastopen, depths, err, bwd>>
    /\ UNCHANGED memVars
    /\ UNCHANGED runVars

callFindLevelOpening(p) ==
    /\ pc = "accepted"
    /\ bwd' = [arg |-> p, res |-> findLevelOpening(depths, p)]
    /\ UNCHANGED <<text, pc, i, depth, lastopen, depths, err, fwd>>
    /\ UNCHANGED memVars
    /\ UNCHANGED runVars

----------------------------------------------------------------------------
(* class Memory, lines 13-45.                                              *)

\* ord() of the characters the model uses
ord(c) ==
    CASE c = "\t" -> 9
      [] c = "\r" -> 13
      [] c = "+" -> 43
      [] c = "[" -> 91
      [] c = "]" -> 93

Called(n, a, l, c) == [name |-> n, arg |-> a, line |-> l, clamped |-> c]

\* lines 14-17
MemoryInit(size) ==
    /\ cells = [k \in 1..size |-> 0]
    /\ pointer = 0
    /\ value = 0

\* setCellTo without max(value, 0)
setCellTo_NoClamp(v) ==
    IF Indexable(cells, pointer)
      THEN /\ cells' = Store(cells, pointer, v)
           /\ value' = At(cells', pointer)
           /\ pointer' = pointer
           /\ exc' = "none"
      ELSE /\ exc' = "IndexError"
           /\ UNCHANGED <<cells, pointer, value>>

\* lines 39-41
setCellTo(v) ==
    IF Indexable(cells, pointer)
      THEN /\ cells' = Store(cells, pointer, max(v, 0))
           /\ value' = At(cells', pointer)
           /\ pointer' = pointer
           /\ exc' = "none"
      ELSE /\ exc' = "IndexError"
           /\ UNCHANGED <<cells, pointer, value>>

\* setPointerTo without max(cell, 0)
setPointerTo_NoClamp(cell) ==
    /\ pointer' = cell
    /\ cells' = cells
    /\ IF Indexable(cells, pointer')
         THEN /\ value' = At(cells, pointer')
              /\ exc' = "none"
         ELSE /\ value' = value
              /\ exc' = "IndexError"

\* lines 43-45: the pointer is assigned before the cell is read
setPointerTo(cell) ==
    /\ pointer' = max(cell, 0)
    /\ cells' = cells
    /\ IF Indexable(cells, pointer')
         THEN /\ value' = At(cells, pointer')
              /\ exc' = "none"
         ELSE /\ value' = value
              /\ exc' = "IndexError"

\* lines 33-34
setPointer(increment) == setPointerTo(pointer + increment)

\* lines 36-37
setValue(increment) ==
    IF Indexable(cells, pointer)
      THEN setCellTo(At(cells, pointer) + increment)
      ELSE /\ exc' = "IndexError"
           /\ UNCHANGED <<cells, pointer, value>>

\* lines 25-31: an empty line makes inputValue the int 0, and 0[0] raises
read(line) ==
    IF Len(line) = 0
      THEN /\ exc' = "TypeError"
           /\ UNCHANGED <<cells, pointer, value>>
      ELSE setCellTo(ord(At(line, 0)))

----------------------------------------------------------------------------
(* A Memory driven by a caller: any sequence of its methods.               *)

Increments == {-2, -1, 1, 2}

InputLines == {<<>>, <<"\t">>, <<"\t", "\r">>}

callSetPointer(d) ==
    /\ pointer + d <= Len(cells) - 1 + MaxOver
    /\ setPointer(d)
    /\ op' = Called("setPointer", d, <<>>, pointer + d < 0)
    /\ UNCHANGED scanVars
    /\ UNCHANGED runVars

callSetPointerTo(c) ==
    /\ setPointerTo(c)
    /\ op' = Called("setPointerTo", c, <<>>, c < 0)
    /\ UNCHANGED scanVars
    /\ UNCHANGED runVars

callSetValue(d) ==
    /\ Indexable(cells, pointer) => At(cells, pointer) + d <= MaxVal
    /\ setValue(d)
    /\ op' = Called("setValue", d, <<>>,
                    Indexable(cells, pointer) /\ At(cells, pointer) + d < 0)
    /\ UNCHANGED scanVars
    /\ UNCHANGED runVars

callSetCellTo(v) ==
    /\ setCellTo(v)
    /\ op' = Called("setCellTo", v, <<>>, Indexable(cells, pointer) /\ v < 0)
    /\ UNCHANGED scanVars
    /\ UNCHANGED runVars

callRead(line) ==
    /\ read(line)
    /\ op' = Called("read", 0, line, FALSE)
    /\ UNCHANGED scanVars
    /\ UNCHANGED runVars

\* no call of brainfuck is in progress
RunIdle ==
    /\ phase = "idle"
    /\ ip = -1
    /\ output = <<>>
    /\ consumed = 0
    /\ memarg = "none"

ScanIdle ==
    /\ text = <<>>
    /\ pc = "start"
    /\ i = 0
    /\ depth = 0
    /\ lastopen = -1
    /\ depths = <<>>
    /\ err = NoError
    /\ fwd = NotCalled
    /\ bwd = NotCalled

MemInit ==
    /\ \E size \in 1..MaxCells : MemoryInit(size)
    /\ op = Called("__init__", 0, <<>>, FALSE)
    /\ exc = "none"
    /\ ScanIdle
    /\ RunIdle

MemNext ==
    \/ \E d \in Increments : callSetPointer(d)
    \/ \E c \in -1..(Len(cells) - 1 + MaxOver) : callSetPointerTo(c)
    \/ \E d \in Increments : callSetValue(d)
    \/ \E v \in -2..MaxVal : callSetCellTo(v)
    \/ \E line \in InputLines : callRead(line)

SpecMem == MemInit /\ [][MemNext]_vars

----------------------------------------------------------------------------
(* The depth analyzer and the jump resolvers applied to bounded texts.     *)

ScanAlphabet == {"[", "]", "+"}

Texts == UNION {[1..n -> ScanAlphabet] : n \in 0..MaxLen}

MemIdle ==
    /\ MemoryInit(1)
    /\ op = Called("__init__", 0, <<>>, FALSE)
    /\ exc = "none"

ScanInit ==
    /\ text \in Texts
    /\ pc = "start"
    /\ i = 0
    /\ depth = 0
    /\ lastopen = -1
    /\ depths = <<>>
    /\ err = NoError
    /\ fwd = NotCalled
    /\ bwd = NotCalled
    /\ MemIdle
    /\ RunIdle

ScanNext ==
    \/ getNestingLevelsEnter
    \/ getNestingLevelsStep
    \/ getNestingLevelsFinish
    \/ \E p \in 0..(Len(text) - 1) : callFindLevelClosing(p)
    \/ \E p \in 0..(Len(text) - 1) : callFindLevelOpening(p)

SpecScan == ScanInit /\ [][ScanNext]_vars

----------------------------------------------------------------------------
(* Memory.print, lines 19-23.                                              *)

\* print taking chr() from 9 on instead of above 9
print_From9 ==
    /\ output' = Append(output, IF value >= 9 THEN value ELSE 48 + value)
    /\ exc' = "none"
    /\ UNCHANGED <<cells, pointer, value>>

\* what print(output, end = "") writes: the digit of an int 0..9 is the
\* character with code point 48 + v, chr(v) the one with code point v
print ==
    /\ output' = Append(output, IF value > 9 THEN value ELSE 48 + value)
    /\ exc' = "none"
    /\ UNCHANGED <<cells, pointer, value>>

----------------------------------------------------------------------------
(* brainfuck, lines 169-247. text is the script (line 215); a call goes    *)
(* through getNestingLevels (line 217) and then the dispatch loop.         *)

Instructions == {"+", "-", ">", "<", ".", ",", "[", "]"}

\* a run without memory argument running on the Memory of the run before
brainfuckEnter_SharedDefault(t, m, size) ==
    /\ phase = "idle"
    /\ (m = "same") => (memarg = "new")
    /\ (m \in {"new", "invalid"}) => (memarg = "none")
    /\ text' = t
    /\ memarg' = m
    /\ ip' = -1
    /\ output' = <<>>
    /\ consumed' = 0
    /\ exc' = "none"
    /\ UNCHANGED <<i, depth, lastopen, depths, fwd, bwd>>
    /\ IF m = "invalid"
         THEN /\ phase' = "failed"
              /\ pc' = "none"
              /\ err' = Raised("InvalidMemoryArgument", -1)
              /\ UNCHANGED <<cells, pointer, value, op>>
         ELSE /\ phase' = "validate"
              /\ pc' = "start"
              /\ err' = NoError
              /\ IF m \in {"same", "none"}
                   THEN UNCHANGED <<cells, pointer, value, op>>
                   ELSE /\ cells' = [k \in 1..size |-> 0]
                        /\ pointer' = 0
                        /\ value' = 0
                        /\ op' = Called("__init__", 0, <<>>, FALSE)

\* lines 200-217: the memory argument m is "none" (omitted, a Memory of
\* memsize = size cells is built), "new" (a Memory of size cells the caller
\* has just built), "same" (the Memory the caller passed to its previous
\* run) or "invalid" (not a Memory); the locals of the call start unassigned
brainfuckEnter(t, m, size) ==
    /\ phase = "idle"
    /\ (m = "same") => (memarg = "new")
    /\ (m \in {"new", "invalid"}) => (memarg = "none")
    /\ text' = t
    /\ memarg' = m
    /\ ip' = -1
    /\ output' = <<>>
    /\ consumed' = 0
    /\ exc' = "none"
    /\ UNCHANGED <<i, depth, lastopen, depths, fwd, bwd>>
    /\ IF m = "invalid"
         THEN /\ phase' = "failed"
              /\ pc' = "none"
              /\ err' = Raised("InvalidMemoryArgument", -1)
              /\ UNCHANGED <<cells, pointer, value, op>>
         ELSE /\ phase' = "validate"
              /\ pc' = "start"
              /\ err' = NoError
              /\ IF m = "same"
                   THEN UNCHANGED <<cells, pointer, value, op>>
                   ELSE /\ cells' = [k \in 1..size |-> 0]
                        /\ pointer' = 0
                        /\ value' = 0
                        /\ op' = Called("__init__", 0, <<>>, FALSE)

\* brainfuck has returned or raised and its locals are gone; the caller
\* either keeps the Memory it built, to pass it to one more run, or holds
\* no Memory any more
brainfuckExit(keep) ==
    /\ phase \in {"done", "failed"}
    /\ phase' = "idle"
    /\ text' = <<>>
    /\ pc' = "none"
    /\ i' = 0
    /\ depth' = 0
    /\ lastopen' = -1
    /\ depths' = <<>>
    /\ err' = NoError
    /\ fwd' = NotCalled
    /\ bwd' = NotCalled
    /\ ip' = -1
    /\ output' = <<>>
    /\ consumed' = 0
    /\ exc' = "none"
    /\ op' = Called("__init__", 0, <<>>, FALSE)
    /\ IF keep /\ memarg = "new"
         THEN UNCHANGED <<cells, pointer, value, memarg>>
         ELSE /\ cells' = <<0>>
              /\ pointer' = 0
              /\ value' = 0
              /\ memarg' = "none"

\* a rejection that clears the Memory the run was given
brainfuckRejected_Clears ==
    /\ phase = "validate"
    /\ pc = "failed"
    /\ phase' = "failed"
    /\ cells' = [k \in 1..Len(cells) |-> 0]
    /\ pointer' = 0
    /\ value' = 0
    /\ UNCHANGED <<op, exc>>
    /\ UNCHANGED <<ip, output, consumed, memarg>>
    /\ UNCHANGED scanVars

\* line 217 raised: the exception of getNestingLevels leaves brainfuck
brainfuckRejected ==
    /\ phase = "validate"
    /\ pc = "failed"
    /\ phase' = "failed"
    /\ UNCHANGED <<ip, output, consumed, memarg>>
    /\ UNCHANGED scanVars
    /\ UNCHANGED memVars

\* lines 217-218: getNestingLevels returned, i = 0
brainfuckValidated ==
    /\ phase = "validate"
    /\ pc = "accepted"
    /\ phase' = "loop"
    /\ ip' = 0
    /\ UNCHANGED <<output, consumed, memarg>>
    /\ UNCHANGED scanVars
    /\ UNCHANGED memVars

\* lines 220-222: the loop is at character c
Fetch(c) ==
    /\ phase = "loop"
    /\ ip < Len(text)
    /\ At(text, ip) = c

\* line 247 after a Memory method that returned; its exception otherwise
\* leaves brainfuck
AfterCall ==
    /\ IF exc' = "none"
         THEN /\ ip' = ip + 1
              /\ UNCHANGED <<phase, err>>
         ELSE /\ ip' = ip
              /\ phase' = "failed"
              /\ err' = Raised(exc', ip)
    /\ UNCHANGED <<text, pc, i, depth, lastopen, depths, fwd, bwd, memarg>>

\* lines 224-225
dispatchPlus ==
    /\ Fetch("+")
    /\ Indexable(cells, pointer) => At(cells, pointer) < MaxRunVal
    /\ setValue(1)
    /\ op' = Called("setValue", 1, <<>>, FALSE)
    /\ AfterCall
    /\ UNCHANGED <<output, consumed>>

\* '-' taking two from the cell
dispatchMinus_ByTwo ==
    /\ Fetch("-")
    /\ setValue(-2)
    /\ op' = Called("setValue", -2, <<>>,
                    Indexable(cells, pointer) /\ At(cells, pointer) - 2 < 0)
    /\ AfterCall
    /\ UNCHANGED <<output, consumed>>

\* lines 226-227
dispatchMinus ==
    /\ Fetch("-")
    /\ setValue(-1)
    /\ op' = Called("setValue", -1, <<>>,
                    Indexable(cells, pointer) /\ At(cells, pointer) - 1 < 0)
    /\ AfterCall
    /\ UNCHANGED <<output, consumed>>

\* lines 228-229
dispatchRight ==
    /\ Fetch(">")
    /\ setPointer(1)
    /\ op' = Called("setPointer", 1, <<>>, FALSE)
    /\ AfterCall
    /\ UNCHANGED <<output, consumed>>

\* lines 230-231
dispatchLeft ==
    /\ Fetch("<")
    /\ setPointer(-1)
    /\ op' = Called("setPointer", -1, <<>>, pointer - 1 < 0)
    /\ AfterCall
    /\ UNCHANGED <<output, consumed>>

\* lines 232-233
dispatchDot ==
    /\ Fetch(".")
    /\ Len(output) < MaxOut
    /\ print
    /\ op' = Called("print", 0, <<>>, FALSE)
    /\ AfterCall
    /\ UNCHANGED consumed

\* lines 234-235
dispatchComma ==
    /\ Fetch(",")
    /\ consumed < MaxReads
    /\ \E line \in InputLines :
          /\ read(line)
          /\ op' = Called("read", 0, line, FALSE)
    /\ consumed' = consumed + 1
    /\ AfterCall
    /\ UNCHANGED output

\* '[' on a zero value landing on the matching ']' instead of after it
dispatchOpen_OntoClosing ==
    /\ Fetch("[")
    /\ IF value = 0
         THEN LET r == findLevelClosing(depths, ip)
              IN  /\ fwd' = [arg |-> ip, res |-> r]
                  /\ IF r.ok
                       THEN /\ ip' = r.val - 1
                            /\ UNCHANGED <<phase, err>>
                       ELSE /\ ip' = ip
                            /\ phase' = "failed"
                            /\ err' = r
         ELSE /\ ip' = ip + 1
              /\ UNCHANGED <<phase, err, fwd>>
    /\ UNCHANGED <<text, pc, i, depth, lastopen, depths, bwd>>
    /\ UNCHANGED <<output, consumed, memarg>>
    /\ UNCHANGED memVars

\* lines 236-239
dispatchOpen ==
    /\ Fetch("[")
    /\ IF value = 0
         THEN LET r == findLevelClosing(depths, ip)
              IN  /\ fwd' = [arg |-> ip, res |-> r]
                  /\ IF r.ok
                       THEN /\ ip' = r.val
                            /\ UNCHANGED <<phase, err>>
                       ELSE /\ ip' = ip
                            /\ phase' = "failed"
                            /\ err' = r
         ELSE /\ ip' = ip + 1
              /\ UNCHANGED <<phase, err, fwd>>
    /\ UNCHANGED <<text, pc, i, depth, lastopen, depths, bwd>>
    /\ UNCHANGED <<output, consumed, memarg>>
    /\ UNCHANGED memVars

\* ']' on a non-zero value landing on the matching '[' instead of after it
dispatchClose_OntoOpening ==
    /\ Fetch("]")
    /\ IF value # 0
         THEN LET r == findLevelOpening(depths, ip)
              IN  /\ bwd' = [arg |-> ip, res |-> r]
                  /\ IF r.ok
                       THEN /\ ip' = r.val - 1
                            /\ UNCHANGED <<phase, err>>
                       ELSE /\ ip' = ip
                            /\ phase' = "failed"
                            /\ err' = r
         ELSE /\ ip' = ip + 1
              /\ UNCHANGED <<phase, err, bwd>>
    /\ UNCHANGED <<text, pc, i, depth, lastopen, depths, fwd>>
    /\ UNCHANGED <<output, consumed, memarg>>
    /\ UNCHANGED memVars

\* lines 240-243
dispatchClose ==
    /\ Fetch("]")
    /\ IF value # 0
         THEN LET r == findLevelOpening(depths, ip)
              IN  /\ bwd' = [arg |-> ip, res |-> r]
                  /\ IF r.ok
                       THEN /\ ip' = r.val
                            /\ UNCHANGED <<phase, err>>
                       ELSE /\ ip' = ip
                            /\ phase' = "failed"
                            /\ err' = r
         ELSE /\ ip' = ip + 1
              /\ UNCHANGED <<phase, err, bwd>>
    /\ UNCHANGED <<text, pc, i, depth, lastopen, depths, fwd>>
    /\ UNCHANGED <<output, consumed, memarg>>
    /\ UNCHANGED memVars

\* a character that is no instruction passed over as a comment
dispatchUnknown_Skip ==
    /\ phase = "loop"
    /\ ip < Len(text)
    /\ At(text, ip) \notin Instructions
    /\ ip' = ip + 1
    /\ UNCHANGED <<text, pc, i, depth, lastopen, depths, err, fwd, bwd>>
    /\ UNCHANGED <<phase, output, consumed, memarg>>
    /\ UNCHANGED memVars

\* a character that is no instruction ending the run as the end of the text
dispatchUnknown_Halts ==
    /\ phase = "loop"
    /\ ip < Len(text)
    /\ At(text, ip) \notin Instructions
    /\ phase' = "done"
    /\ UNCHANGED <<text, pc, i, depth, lastopen, depths, err, fwd, bwd>>
    /\ UNCHANGED <<ip, output, consumed, memarg>>
    /\ UNCHANGED memVars

\* lines 244-245
dispatchUnknown ==
    /\ phase = "loop"
    /\ ip < Len(text)
    /\ At(text, ip) \notin Instructions
    /\ phase' = "failed"
    /\ err' = Raised("UnknownInstruction", ip)
    /\ UNCHANGED <<text, pc, i, depth, lastopen, depths, fwd, bwd>>
    /\ UNCHANGED <<ip, output, consumed, memarg>>
    /\ UNCHANGED memVars

\* line 220: the loop condition fails and brainfuck returns
brainfuckReturn ==
    /\ phase = "loop"
    /\ ip >= Len(text)
    /\ phase' = "done"
    /\ UNCHANGED <<ip, output, consumed, memarg>>
    /\ UNCHANGED scanVars
    /\ UNCHANGED memVars

----------------------------------------------------------------------------
(* Runs of brainfuck on bounded programs: every text of up to MaxProgLen   *)
(* characters, alone and after a '+' or a '.', loops around short bodies,  *)
(* the multiplication programs and the examples of the documentation. A Memory the caller builds is passed *)
(* to one run and then, at most, to one more.                              *)

RunAlphabet == Instructions \cup {"x"}

TextsOver(A, n) == UNION {[1..k -> A] : k \in 0..n}

Rep(c, n) == [k \in 1..n |-> c]

\* a '+', then [ > b '+' < - ] > .
Mul(a, b) ==
    Rep("+", a) \o <<"[", ">">> \o Rep("+", b) \o <<"<", "-", "]", ">", ".">>

Factors == 0..MaxFactor \cup {8}

MulPrograms == {Mul(a, b) : a \in Factors, b \in Factors}

Singles == {<<c>> : c \in RunAlphabet \ {"[", "]"}} \cup {<<>>}

Bodies ==
    Singles \cup {<<"[">> \o b \o <<"]">> : b \in Singles}
        \cup {<<"-", "[">> \o b \o <<"]">> : b \in Singles}
        \cup {<<".", "-">>}

LoopPrograms ==
    {pre \o <<"[">> \o body \o <<"]">> \o post :
        pre \in {<<>>, <<"+">>, <<"+", "+">>, <<",">>},
        body \in Bodies,
        post \in {<<>>, <<".">>, <<"x">>}}

\* a '+' or a '.' before every short text
Prefixed ==
    {<<c>> \o t : c \in {"+", "."}, t \in TextsOver(RunAlphabet, MaxProgLen)}

Examples ==
    {<<"+", "+", "+">>, <<"+", "+", "+", ".">>, <<",", ".">>, <<",", ",">>,
     <<">", "+">>, <<">", "<">>}

Programs ==
    TextsOver(RunAlphabet, MaxProgLen) \cup Prefixed \cup MulPrograms
        \cup LoopPrograms \cup Examples

\* no call of brainfuck has been made and the caller holds no Memory
Init ==
    /\ text = <<>>
    /\ pc = "none"
    /\ i = 0
    /\ depth = 0
    /\ lastopen = -1
    /\ depths = <<>>
    /\ err = NoError
    /\ fwd = NotCalled
    /\ bwd = NotCalled
    /\ MemIdle
    /\ RunIdle

\* the steps of a call in progress
RunStep ==
    \/ getNestingLevelsEnter
    \/ getNestingLevelsStep
    \/ getNestingLevelsFinish
    \/ brainfuckRejected
    \/ brainfuckValidated
    \/ dispatchPlus
    \/ dispatchMinus
    \/ dispatchRight
    \/ dispatchLeft
    \/ dispatchDot
    \/ dispatchComma
    \/ dispatchOpen
    \/ dispatchClose
    \/ dispatchUnknown
    \/ brainfuckReturn

\* the caller's calls of brainfuck, one after the other
CallStep ==
    /\ phase = "idle"
    /\ \/ \E t \in Programs, m \in {"none", "new", "invalid"},
             size \in 1..MaxCells : brainfuckEnter(t, m, size)
       \/ \E t \in Programs : brainfuckEnter(t, "same", Len(cells))

Next ==
    \/ CallStep
    \/ \E keep \in BOOLEAN : brainfuckExit(keep)
    \/ RunStep

Spec == Init /\ [][Next]_vars

\* the interpreter keeps executing the call it is in
FairSpec == Spec /\ WF_vars(RunStep)

----------------------------------------------------------------------------
(* Reference notions the properties are stated against: bracket counts     *)
(* and ordinary stack-based bracket matching.                              *)

\* number of positions 0..k of t holding character c
Count(t, c, k) == Cardinality({j \in 0..k : j < Len(t) /\ At(t, j) = c})

\* running depth after position k
Running(t, k) == Count(t, opening, k) - Count(t, closing, k)

Balanced(t) ==
    /\ \A k \in 0..(Len(t) - 1) : Running(t, k) >= 0
    /\ Running(t, Len(t) - 1) = 0

\* positions at which the running depth is negative
NegativeAt(t) == {k \in 0..(Len(t) - 1) : Running(t, k) < 0}

RECURSIVE MatchScan(_, _, _, _)
MatchScan(t, k, stack, pairs) ==
    IF k = Len(t) THEN pairs
    ELSE IF At(t, k) = opening
           THEN MatchScan(t, k + 1, <<k>> \o stack, pairs)
    ELSE IF At(t, k) = closing /\ stack # <<>>
           THEN MatchScan(t, k + 1, Tail(stack), pairs \cup {<<Head(stack), k>>})
    ELSE MatchScan(t, k + 1, stack, pairs)

\* the set of <<m, q>>: '[' at m matched by ']' at q
Pairs(t) == MatchScan(t, 0, <<>>, {})

\* positions of '[' that no ']' matches
UnmatchedOpens(t) ==
    {m \in 0..(Len(t) - 1) :
        At(t, m) = opening /\ ~ \E q \in 0..(Len(t) - 1) : <<m, q>> \in Pairs(t)}

IsOpen(p) == p >= 0 /\ p < Len(text) /\ At(text, p) = opening

IsClose(p) == p >= 0 /\ p < Len(text) /\ At(text, p) = closing

----------------------------------------------------------------------------
(* Properties of the jump resolvers (specification SpecScan).              *)

\* C1: for every '[' at position p of an accepted program,
\* findLevelClosing(depths, p) returns some r, and findLevelOpening(depths,
\* r - 1) then returns p + 1: forward and backward resolution are inverses.
C1_MutualInverses ==
    (pc = "accepted" /\ IsOpen(fwd.arg)) =>
        /\ fwd.res.ok
        /\ (bwd.arg = fwd.res.val - 1) => bwd.res = Returned(fwd.arg + 1)

\* C2: for every ']' at position p of an accepted program, findLevelOpening
\* does not fail and returns m + 1, m the position of the matching '['.
C2_OpeningIsMatch ==
    (pc = "accepted" /\ IsClose(bwd.arg)) =>
        /\ bwd.res.ok
        /\ \E m \in 0..(Len(text) - 1) :
              <<m, bwd.arg>> \in Pairs(text) /\ bwd.res.val = m + 1

\* C3: for every '[' at position p of an accepted program, findLevelClosing
\* does not fail and returns q + 1, q the position of the matching ']'; the
\* result lies in p + 2 .. len(program).
C3_ClosingIsMatch ==
    (pc = "accepted" /\ IsOpen(fwd.arg)) =>
        /\ fwd.res.ok
        /\ \E q \in 0..(Len(text) - 1) :
              <<fwd.arg, q>> \in Pairs(text) /\ fwd.res.val = q + 1
        /\ fwd.res.val \in (fwd.arg + 2)..Len(text)

\* findLevelClosing was called on the outer '[' of a nested loop that is
\* followed by more text
C3_Witness ==
    /\ pc = "accepted"
    /\ IsOpen(fwd.arg)
    /\ fwd.res.ok
    /\ fwd.res.val < Len(text)
    /\ \E m \in (fwd.arg + 1)..(fwd.res.val - 2) : IsOpen(m)

----------------------------------------------------------------------------
(* Properties of getNestingLevels (specification SpecScan).                *)

\* C4: for every accepted non-empty text the result has one entry per
\* character, depths[k] is the number of '[' minus the number of ']' in
\* text[0..k], every entry is >= 0 and the last entry is 0.
C4_DepthSequence ==
    (pc = "accepted" /\ Len(text) > 0) =>
        /\ Len(depths) = Len(text)
        /\ \A k \in 0..(Len(text) - 1) :
              /\ At(depths, k) = Running(text, k)
              /\ At(depths, k) >= 0
        /\ At(depths, Len(text) - 1) = 0

\* an accepted text with a loop nested in a loop
C4_Witness ==
    /\ pc = "accepted"
    /\ \E k \in 0..(Len(text) - 1) : At(depths, k) = 2

\* C5: a non-empty text is accepted iff its brackets are balanced; when a
\* prefix has more ']' than '[', the failure is UnmatchedClosingBracket at
\* the smallest position where the running depth is negative, and the scan
\* has not gone past that position.
C5_AcceptIffBalanced ==
    (pc \in {"accepted", "failed"} /\ Len(text) > 0) =>
        /\ (pc = "accepted") <=> Balanced(text)
        /\ NegativeAt(text) # {} =>
              /\ pc = "failed"
              /\ err = Raised("UnmatchedClosingBracket", SetMin(NegativeAt(text)))
              /\ i = SetMin(NegativeAt(text))
              /\ \A k \in i..(Len(text) - 1) : At(depths, k) = 0

\* a text whose first negative depth is neither at position 0 nor at the
\* end, rejected there
C5_Witness ==
    /\ pc = "failed"
    /\ err.exc = "UnmatchedClosingBracket"
    /\ err.pos > 1
    /\ err.pos < Len(text) - 1
    /\ \E k \in 0..(err.pos - 1) : At(text, k) = opening

\* C6: when the scan ends with depth > 0 the failure is
\* UnmatchedOpeningBracket at the position of the outermost '[' that has no
\* matching ']' (0 for "[["), a '[' that really is unmatched.
C6_OutermostUnmatched ==
    (pc = "failed" /\ depth > 0) =>
        /\ err.exc = "UnmatchedOpeningBracket"
        /\ err.pos \in UnmatchedOpens(text)
        /\ err.pos = SetMin(UnmatchedOpens(text))

----------------------------------------------------------------------------
(* Properties of Memory (specification SpecMem).                           *)

\* C7: every cell is >= 0 in every reachable state; setValue(-1) on a cell
\* holding 0 leaves 0, on a cell holding v > 0 leaves v - 1, and
\* setValue(+1) on a cell holding v leaves v + 1.
C7_CellsClamped ==
    /\ [](\A k \in 0..(Len(cells) - 1) : At(cells, k) >= 0)
    /\ [][\A d \in {-1, 1} :
            (callSetValue(d) /\ Indexable(cells, pointer)) =>
                LET v == At(cells, pointer)
                IN  /\ exc' = "none"
                    /\ (d = -1 /\ v = 0) => At(cells', pointer) = 0
                    /\ (d = -1 /\ v > 0) => At(cells', pointer) = v - 1
                    /\ (d = 1) => At(cells', pointer) = v + 1]_vars

\* setValue(-1) has just clamped a cell other than cell 0 at 0, next to a
\* non-zero cell
C7_Witness ==
    /\ op.name = "setValue"
    /\ op.arg = -1
    /\ op.clamped
    /\ exc = "none"
    /\ pointer > 0
    /\ At(cells, pointer) = 0
    /\ At(cells, 0) > 0

\* C8: the pointer is >= 0 in every reachable state; every setPointer(d)
\* leaves it at max(pointer + d, 0), and setPointer(-1) with pointer 0
\* leaves it at 0 and changes no cell.
C8_PointerClamped ==
    /\ [](pointer >= 0)
    /\ [][/\ \A d \in Increments :
               callSetPointer(d) =>
                   /\ pointer' = (IF pointer + d > 0 THEN pointer + d ELSE 0)
                   /\ (pointer = 0 /\ d = -1) => (pointer' = 0 /\ cells' = cells)
          /\ \A c \in -1..(Len(cells) - 1 + MaxOver) :
               callSetPointerTo(c) => pointer' = (IF c > 0 THEN c ELSE 0)]_vars

\* setPointer(-1) was called with the pointer at 0 on a tape that holds a
\* non-zero cell
C8_Witness ==
    /\ op.name = "setPointer"
    /\ op.arg = -1
    /\ op.clamped
    /\ pointer = 0
    /\ \E k \in 0..(Len(cells) - 1) : At(cells, k) > 0

\* C9: in every state a caller can observe, also after a call that aborted,
\* pointer indexes an existing cell and value = cells[pointer].
C9_ValueSynchronized ==
    /\ pointer \in 0..(Len(cells) - 1)
    /\ value = At(cells, pointer)

\* C10: read with an empty line sets the current cell and the cached value
\* to 0 and returns; with a non-empty line it sets them to the code point of
\* the first character; the pointer and the other cells are unchanged.
C10_ReadSetsCell ==
    [][\A line \in InputLines :
          (callRead(line) /\ Indexable(cells, pointer)) =>
              LET v == IF Len(line) = 0 THEN 0 ELSE ord(At(line, 0))
              IN  /\ exc' = "none"
                  /\ cells' = Store(cells, pointer, v)
                  /\ value' = v
                  /\ pointer' = pointer]_vars

----------------------------------------------------------------------------
(* Properties of runs of brainfuck (specifications Spec and FairSpec).     *)

\* code points of the characters "0" .. "9"
DigitChars == <<48, 49, 50, 51, 52, 53, 54, 55, 56, 57>>

\* the character a '.' writes for cached value v
Rendering(v) == IF v \in 0..9 THEN DigitChars[v + 1] ELSE v

\* the run is on a Memory nothing has run on before
FreshRun == memarg \in {"none", "new"}

\* C11: every executed '.' appends exactly one item to the output, the
\* decimal digit of the cached value v when 0 <= v <= 9 and the character
\* with code point v when v > 9, and changes neither the tape nor the
\* pointer; no other instruction writes; "+++." on a fresh tape emits 3.
C11_OutputInOrder ==
    /\ [][dispatchDot =>
            /\ output' = Append(output, Rendering(value))
            /\ UNCHANGED <<cells, pointer, value>>]_vars
    /\ [][(phase = "loop" /\ ~dispatchDot) => output' = output]_vars
    /\ [](phase \in {"idle", "validate"} => output = <<>>)
    /\ []((text = <<"+", "+", "+", ".">> /\ FreshRun /\ phase = "done")
             => output = <<51>>)

\* a run has written two characters above 9 and then a digit
C11_Witness ==
    /\ phase = "loop"
    /\ Len(output) = 3
    /\ output[1] > 9 /\ output[1] < 48
    /\ output[2] = output[1] - 1
    /\ output[3] = 57
    /\ op.name = "print"

\* a run of the multiplication program for some factors, on a Memory of at
\* least two cells that nothing has run on before
MulRun(a, b) == text = Mul(a, b) /\ FreshRun /\ Len(cells) >= 2

\* C12: the program +^a [ > +^b < - ] > . run on a fresh tape ends, without
\* error, with cell 0 equal to 0, cell 1 equal to a*b and the pointer on
\* cell 1, having written exactly one item, the rendering of a*b (the
\* character with code point 64 for a = b = 8).
C12_Multiplication ==
    /\ [](\A a \in Factors, b \in Factors :
            MulRun(a, b) =>
                /\ phase # "failed"
                /\ phase = "done" =>
                     /\ At(cells, 0) = 0
                     /\ At(cells, 1) = a * b
                     /\ pointer = 1
                     /\ value = a * b
                     /\ output = <<Rendering(a * b)>>
                     /\ (a = 8 /\ b = 8) => output = <<64>>)
    /\ ((\E a \in Factors, b \in Factors : MulRun(a, b)) /\ phase = "validate")
          ~> (phase = "done")

\* the run of 8 times 8 has ended
C12_Witness ==
    /\ MulRun(8, 8)
    /\ phase = "done"
    /\ output = <<64>>
    /\ At(cells, 1) = 64

\* the instruction pointer is on a '[' and the cached value is 0
SkipCase == Fetch(opening) /\ value = 0

\* C13: a '[' at position p dispatched while the cached value is 0 moves the
\* instruction pointer one past the matching ']' in a single step that
\* leaves the cells, the pointer, the cached value and the output as they
\* are, hence runs nothing of the loop body, at any nesting depth and any
\* position; "[-]" started on a cell holding 0 ends after that one step with
\* the cell still 0.
C13_SkipOnZero ==
    /\ [][(SkipCase /\ RunStep) =>
            /\ dispatchOpen
            /\ phase' = "loop"
            /\ \E q \in 0..(Len(text) - 1) :
                  <<ip, q>> \in Pairs(text) /\ ip' = q + 1
            /\ UNCHANGED <<cells, pointer, value, output, consumed>>]_vars
    /\ [][(text = <<"[", "-", "]">> /\ SkipCase /\ RunStep) =>
            (ip' = 3 /\ cells' = cells)]_vars
    /\ []((text = <<"[", "-", "]">> /\ FreshRun) =>
            /\ phase # "failed"
            /\ phase \in {"loop", "done"} =>
                 (ip \in {0, 3} /\ At(cells, 0) = 0 /\ pointer = 0))

\* the inner '[' of a nested loop, not at the start of the program, has just
\* been skipped over a non-empty body, inside a loop that was entered
C13_Witness ==
    /\ phase = "loop"
    /\ fwd.res.ok
    /\ ip = fwd.res.val
    /\ fwd.arg > 1
    /\ ip > fwd.arg + 2
    /\ depths[fwd.arg + 1] = 2
    /\ \E k \in 1..Len(cells) : cells[k] # 0 \/ output # <<>>

\* the instruction pointer is on a character that is no instruction
OnUnknown ==
    phase = "loop" /\ ip < Len(text) /\ At(text, ip) \notin Instructions

\* the run has failed with UnknownInstruction
FailedUnknown == phase = "failed" /\ err.exc = "UnknownInstruction"

\* C14: when the instruction pointer reaches a character c that is none of
\* + - > < . , [ ] the run fails with UnknownInstruction for c, and the
\* cells, the pointer, the cached value and the output at the failure are
\* those the earlier instructions left: nothing is undone and nothing after
\* c runs. "+x" on a fresh tape fails leaving cell 0 equal to 1.
C14_UnknownKeepsState ==
    /\ [][(OnUnknown /\ RunStep) =>
            /\ phase' = "failed"
            /\ err' = Raised("UnknownInstruction", ip)
            /\ UNCHANGED <<ip, cells, pointer, value, output, consumed>>]_vars
    /\ [][phase = "failed" => phase' = "idle"]_vars
    /\ [](FailedUnknown =>
            /\ pc = "accepted"
            /\ ip = err.pos
            /\ ip < Len(text)
            /\ At(text, ip) \notin Instructions)
    /\ []((text = <<"+", "x">> /\ FreshRun) =>
            /\ phase # "done"
            /\ phase = "failed" =>
                 /\ FailedUnknown
                 /\ At(cells, 0) = 1
                 /\ pointer = 0
                 /\ value = 1
                 /\ output = <<>>)

\* a run that wrote two items failed on the last character of its program
C14_Witness ==
    /\ FailedUnknown
    /\ err.pos = Len(text) - 1
    /\ err.pos > 1
    /\ Len(output) >= 2

\* the exception getNestingLevels raises for text t
Rejection(t) ==
    IF t = <<>> THEN "EmptyProgram"
    ELSE IF NegativeAt(t) # {} THEN "UnmatchedClosingBracket"
    ELSE "UnmatchedOpeningBracket"

\* a call of brainfuck is under way or has just ended
InCall == phase # "idle"

\* C15: the whole program is validated before any instruction runs. A run
\* on a Memory of the caller whose program is empty or unbalanced fails
\* with EmptyProgram, UnmatchedClosingBracket or UnmatchedOpeningBracket
\* and leaves the cells, the pointer and the cached value of that Memory as
\* they were, writes nothing and reads nothing, whatever instructions stand
\* before the bracket; a run whose memory argument is no Memory fails with
\* InvalidMemoryArgument before anything runs.
C15_ValidationFirst ==
    /\ [][(phase = "idle" /\ phase' # "idle" /\ memarg' \in {"same", "invalid"})
            => UNCHANGED <<cells, pointer, value>>]_vars
    /\ [][phase = "validate" =>
            /\ UNCHANGED <<cells, pointer, value, output, consumed>>
            /\ phase' \in {"validate", "loop", "failed"}]_vars
    /\ []((InCall /\ memarg # "invalid" /\ (text = <<>> \/ ~Balanced(text))) =>
            /\ phase \in {"validate", "failed"}
            /\ output = <<>> /\ consumed = 0 /\ ip = -1
            /\ phase = "failed" =>
                 (pc = "failed" /\ err.exc = Rejection(text)))
    /\ []((InCall /\ memarg # "invalid" /\ text # <<>> /\ Balanced(text)) =>
            ~(phase = "failed" /\ pc = "failed"))
    /\ []((InCall /\ memarg = "invalid") =>
            /\ phase = "failed"
            /\ err.exc = "InvalidMemoryArgument"
            /\ pc = "none"
            /\ output = <<>> /\ consumed = 0 /\ ip = -1)

\* a run on a Memory an earlier run left with a non-zero current cell was
\* rejected for a bracket that follows a '+' or a '.'
C15_Witness ==
    /\ phase = "failed"
    /\ pc = "failed"
    /\ memarg = "same"
    /\ Len(text) >= 2
    /\ text[1] \in {"+", "."}
    /\ err.exc \in {"UnmatchedClosingBracket", "UnmatchedOpeningBracket"}
    /\ value # 0
    /\ Indexable(cells, pointer) /\ At(cells, pointer) = value

\* a call of brainfuck starts
Entering == phase = "idle" /\ phase' # "idle"

\* C16: nothing but the caller's Memory passes from one run to the next. A
\* run given the Memory of the run before starts with instruction pointer 0
\* on exactly the cells, pointer and cached value that run left, so "+++"
\* and then "." on the same Memory writes 3; a run without memory argument
\* starts on a new Memory of memsize cells, all 0, pointer 0 and cached
\* value 0, whatever ran before, so a following "." writes 0.
C16_MemoryCarried ==
    /\ [][(Entering /\ memarg' = "same") =>
            (memarg = "new" /\ UNCHANGED <<cells, pointer, value>>)]_vars
    /\ [][(Entering /\ memarg' \in {"none", "new"}) =>
            /\ Len(cells') \in 1..MaxCells
            /\ cells' = [k \in 1..Len(cells') |-> 0]
            /\ pointer' = 0
            /\ value' = 0]_vars
    /\ [][Entering =>
            (output' = <<>> /\ consumed' = 0 /\ ip' = -1 /\ err'.val = -1)]_vars
    /\ [][(phase = "validate" /\ phase' = "loop") =>
            (ip' = 0 /\ UNCHANGED <<cells, pointer, value>>)]_vars
    /\ []((text = <<"+", "+", "+">> /\ FreshRun /\ phase = "done") =>
            (At(cells, 0) = 3 /\ pointer = 0 /\ value = 3))
    /\ []((text = <<".">> /\ phase = "done") =>
            /\ output = <<Rendering(value)>>
            /\ (memarg = "same" /\ value = 3) => output = <<51>>
            /\ memarg = "none" => output = <<48>>)

\* "." has run on a Memory whose cell 0 an earlier run left at 3
C16_Witness ==
    /\ text = <<".">>
    /\ memarg = "same"
    /\ phase = "done"
    /\ pointer = 0
    /\ At(cells, 0) = 3
    /\ output = <<51>>

\* the run failed after getNestingLevels had accepted its program
FailedInLoop == phase = "failed" /\ pc = "accepted"

BracketErrors == {"UnmatchedOpeningBracket", "UnmatchedClosingBracket"}

\* C17: bracket errors come from the pre-scan only: in a run of a program
\* getNestingLevels accepted, on a fresh or a borrowed Memory, no dispatch
\* of '[' or ']' fails with UnmatchedOpeningBracket or
\* UnmatchedClosingBracket; every branch taken finds its target.
C17_NoBracketErrorInDispatch ==
    FailedInLoop => err.exc \notin BracketErrors

\* positions of t holding a character that is no instruction
UnknownAt(t) == {k \in 0..(Len(t) - 1) : At(t, k) \notin Instructions}

\* position k of t lies inside a loop body
InsideLoop(t, k) == \E pr \in Pairs(t) : pr[1] < k /\ k < pr[2]

\* C18 as stated: a run of a program that holds a character outside
\* + - > < . , [ ] never ends normally, wherever the character stands,
\* inside a loop body included, and whatever the tape holds.
C18_NoNormalEnd ==
    phase = "done" => UnknownAt(text) = {}

\* C18: a run fails with UnknownInstruction exactly when its instruction
\* pointer reaches a character outside + - > < . , [ ], also inside a loop
\* body that is entered; such a character is not rejected when it is never
\* reached: a run that ends normally holds them only inside loop bodies it
\* skipped, and a run that another exception stopped fails with that
\* exception.
C18_RejectedWhenReached ==
    /\ [][(OnUnknown /\ RunStep) => FailedUnknown']_vars
    /\ [](FailedInLoop =>
            (err.exc = "UnknownInstruction" <=> ip \in UnknownAt(text)))
    /\ [](FailedUnknown => FailedInLoop)
    /\ [](phase = "done" => \A k \in UnknownAt(text) : InsideLoop(text, k))

\* a run on a non-zero cell failed on an unknown character inside the body
\* of a loop it had entered
C18_Witness ==
    /\ FailedUnknown
    /\ InsideLoop(text, ip)
    /\ value # 0
    /\ depths[ip + 1] >= 1

\* the three characters "[-]" stand at positions p, p + 1, p + 2 of text
DecrementLoopAt(p) ==
    /\ p >= 0 /\ p + 2 < Len(text)
    /\ At(text, p) = "[" /\ At(text, p + 1) = "-" /\ At(text, p + 2) = "]"

\* C19: a decrement loop ends and zeroes its cell: once the instruction
\* pointer of a validated program has reached a "[-]" at position p with
\* the current cell holding some v >= 0, on a fresh or a borrowed Memory,
\* the run gets to position p + 3 without an error on the way.
C19_DecrementLoopNoError ==
    \A p \in 0..(Len(text) - 3) :
        (pc = "accepted" /\ DecrementLoopAt(p) /\ ip \in p..(p + 2)
           /\ Indexable(cells, pointer))
        => phase # "failed"

\* the instruction pointer stays within the text, the loop is left exactly
\* at its end, and a step that raises leaves the instruction pointer alone
PointerWithinText ==
    /\ []((pc = "accepted" /\ phase \in {"loop", "done", "failed"}) =>
            ip \in 0..Len(text))
    /\ [](phase = "done" => ip = Len(text))
    /\ [][(phase = "loop" /\ ip = Len(text)) =>
            (phase' = "done" /\ ip' = ip)]_vars
    /\ [][(phase = "loop" /\ ip < Len(text)) =>
            phase' \in {"loop", "failed"}]_vars
    /\ [][(phase = "loop" /\ phase' = "failed") => ip' = ip]_vars

\* C20 as stated: in every state of a run of a validated program the
\* instruction pointer i satisfies 0 <= i <= len(program), and the loop is
\* left exactly when i = len(program). A dispatch step that completes sets
\* i to i + 1, or for '[' on value 0 to a position strictly above i that is
\* one past a ']', or for ']' on a non-zero value to a position strictly
\* below i that is one past a '['; no jump lands outside 1..len(program).
C20_JumpsStrict ==
    /\ PointerWithinText
    /\ [][(phase = "loop" /\ phase' = "loop") =>
            IF Fetch(opening) /\ value = 0
              THEN ip' > ip /\ ip' \in 1..Len(text) /\ IsClose(ip' - 1)
            ELSE IF Fetch(closing) /\ value # 0
              THEN ip' < ip /\ ip' \in 1..Len(text) /\ IsOpen(ip' - 1)
            ELSE ip' = ip + 1]_vars

\* C20: as above, but the ']' of a loop on a non-zero value goes to the
\* position one past its matching '[', which is below i for a loop with a
\* body and is i itself for the empty loop "[]": there the instruction
\* pointer stays on the ']'.
C20_PointerInRange ==
    /\ PointerWithinText
    /\ [][(phase = "loop" /\ phase' = "loop") =>
            IF Fetch(opening) /\ value = 0
              THEN /\ ip' > ip /\ ip' \in 1..Len(text) /\ IsClose(ip' - 1)
                   /\ <<ip, ip' - 1>> \in Pairs(text)
            ELSE IF Fetch(closing) /\ value # 0
              THEN /\ ip' <= ip /\ ip' \in 1..Len(text) /\ IsOpen(ip' - 1)
                   /\ <<ip' - 1, ip>> \in Pairs(text)
                   /\ (ip' = ip) <=> IsOpen(ip - 1)
            ELSE ip' = ip + 1]_vars

\* the ']' of an empty loop, reached on a non-zero value, has jumped to
\* itself
C20_Witness ==
    /\ phase = "loop"
    /\ bwd.res.ok
    /\ bwd.res.val = bwd.arg
    /\ ip = bwd.arg
    /\ IsClose(ip) /\ IsOpen(ip - 1)
    /\ value # 0

====
